---- MODULE Spec2Model ----
(***************************************************************************)
(* Kuhn poker game tree (src/src/kuhn.rs) and the CFR solver with its      *)
(* regret-matching engine (src/src/cfr.rs).                                *)
(*                                                                         *)
(* f64 is modelled as a binary floating-point format with round-to-nearest *)
(* ties-to-even, infinities and NaN, exactly as IEEE 754 prescribes, but   *)
(* with MantBits significand bits and exponents in MinExp..MaxExp instead  *)
(* of 53 bits and -1022..1023 (signed zero is not distinguished).          *)
(***************************************************************************)
EXTENDS Integers, Sequences, FiniteSets, TLC

VARIABLES
  state,      \* GameState walked by next_state        (SpecGame)
  legalPlay,  \* ghost: every action so far was taken from legal_actions
  payoff,     \* the last get_payoff call on state's history text
  node,       \* a CFRNode with arbitrary regret_sum   (SpecStrategy)
  strategy,   \* result of get_strategy(node); <<>> before the call
  info_sets,  \* the InfoSetMap threaded through cfr   (Spec)
  calls,      \* number of top-level cfr calls made on info_sets
  last,       \* ghost: deal, result and visits of the last top-level cfr call
  visited,    \* ghost: every (key, acting card, history, deal) cfr has looked up
  panicked,   \* an unwrap() on a missing key has aborted the program
  printed,    \* the average strategies print_strategy computed, per key
  train       \* train(iterations): its loop counters            (SpecTrain)

vars == <<state, legalPlay, payoff, node, strategy, info_sets, calls, last, visited,
          panicked, printed, train>>

(***************************************************************************)
(* Bounds of the model.                                                    *)
(***************************************************************************)
MantBits == 6     \* significand bits of the modelled float format
MaxExp == 5       \* largest exponent: finite values are below 2^(MaxExp+1)
MaxPlies == 4     \* next_state calls applied to one GameState
MaxCalls == 3     \* top-level cfr calls on one store
MaxIters == 5     \* largest iterations argument of train

MinExp == 1 - MaxExp

(***************************************************************************)
(* Floating point: a value is [n, d]; d > 0 is the finite number n/d in    *)
(* lowest terms, d = 0 is +inf (n = 1), -inf (n = -1) or NaN (n = 0).      *)
(***************************************************************************)
Abs(i) == IF i < 0 THEN -i ELSE i

Sign(i) == IF i < 0 THEN -1 ELSE IF i > 0 THEN 1 ELSE 0

RECURSIVE Pow2(_)
Pow2(k) == IF k <= 0 THEN 1 ELSE 2 * Pow2(k - 1)

RECURSIVE GCD(_, _)
GCD(a, b) == IF b = 0 THEN a ELSE GCD(b, a % b)

Norm(n, d) ==
  LET g == GCD(Abs(n), d) IN [n |-> n \div g, d |-> d \div g]

NaN == [n |-> 0, d |-> 0]

Inf(s) == [n |-> s, d |-> 0]

Zero == [n |-> 0, d |-> 1]

One == [n |-> 1, d |-> 1]

IsNaN(x) == x.d = 0 /\ x.n = 0

IsInf(x) == x.d = 0 /\ x.n # 0

IsFin(x) == x.d > 0

\* floor(log2(a/d)) for a, d > 0
RECURSIVE Elog(_, _)
Elog(a, d) ==
  IF a >= 2 * d THEN Elog(a, 2 * d) + 1
  ELSE IF a < d THEN Elog(2 * a, d) - 1
  ELSE 0

\* the float nearest to the exact rational n/d (d > 0), ties to even;
\* overflow gives an infinity, underflow is gradual
RoundF(n, d) ==
  IF n = 0 THEN Zero
  ELSE
    LET a == Abs(n)
        e == Elog(a, d)
        q == (IF e < MinExp THEN MinExp ELSE e) - (MantBits - 1)
        N == IF q < 0 THEN a * Pow2(-q) ELSE a
        D == IF q > 0 THEN d * Pow2(q) ELSE d
        fl == N \div D
        r == N % D
        m == IF 2 * r > D \/ (2 * r = D /\ fl % 2 = 1) THEN fl + 1 ELSE fl
    IN IF e > MaxExp \/ m >= Pow2(MaxExp + 1 - q) THEN Inf(Sign(n))
       ELSE IF q >= 0 THEN Norm(Sign(n) * m * Pow2(q), 1)
       ELSE Norm(Sign(n) * m, Pow2(-q))

\* i32 as f64
FromInt(i) == RoundF(i, 1)

FNeg(x) == [n |-> -x.n, d |-> x.d]

\* x + y
FAdd(x, y) ==
  IF IsNaN(x) \/ IsNaN(y) THEN NaN
  ELSE IF IsInf(x) THEN (IF IsInf(y) /\ y.n # x.n THEN NaN ELSE x)
  ELSE IF IsInf(y) THEN y
  ELSE RoundF(x.n * y.d + y.n * x.d, x.d * y.d)

\* x - y
FSub(x, y) == FAdd(x, FNeg(y))

\* x * y
FMul(x, y) ==
  IF IsNaN(x) \/ IsNaN(y) THEN NaN
  ELSE IF IsInf(x) \/ IsInf(y)
    THEN (IF x.n = 0 \/ y.n = 0 THEN NaN ELSE Inf(Sign(x.n) * Sign(y.n)))
  ELSE RoundF(x.n * y.n, x.d * y.d)

\* x / y
FDiv(x, y) ==
  IF IsNaN(x) \/ IsNaN(y) THEN NaN
  ELSE IF IsInf(x) THEN (IF IsInf(y) THEN NaN ELSE Inf(x.n * (IF y.n < 0 THEN -1 ELSE 1)))
  ELSE IF IsInf(y) THEN Zero
  ELSE IF y.n = 0 THEN (IF x.n = 0 THEN NaN ELSE Inf(Sign(x.n)))
  ELSE RoundF(x.n * y.d * Sign(y.n), x.d * Abs(y.n))

\* x < y (false when either is NaN)
FLt(x, y) ==
  IF IsNaN(x) \/ IsNaN(y) THEN FALSE
  ELSE IF IsInf(x) THEN x.n < 0 /\ y # x
  ELSE IF IsInf(y) THEN y.n > 0
  ELSE x.n * y.d < y.n * x.d

\* x > y
FGt(x, y) == FLt(y, x)

\* f64::max: the larger operand, the other one when one is NaN
FMax(x, y) ==
  IF IsNaN(x) THEN y
  ELSE IF IsNaN(y) THEN x
  ELSE IF FLt(x, y) THEN y ELSE x

(***************************************************************************)
(* kuhn.rs: actions, history, players, game state.                         *)
(***************************************************************************)
Check == 0

Bet == 1

Call == 2

Fold == 3

Action == {Check, Bet, Call, Fold}

\* Display with the Bet arm spelled as a raise
ActionToString_BetAsRaise(a) ==
  CASE a = Check -> "Check"
    [] a = Bet -> "Raise"
    [] a = Call -> "Call"
    [] a = Fold -> "Fold"

\* impl fmt::Display for Action
ActionToString(a) ==
  CASE a = Check -> "Check"
    [] a = Bet -> "Bet"
    [] a = Call -> "Call"
    [] a = Fold -> "Fold"

\* to_string that gives the name of the last action only
HistoryToString_LastOnly(h) ==
  IF Len(h) = 0 THEN "" ELSE ActionToString(h[Len(h)])

\* History::to_string: the action names joined with "-"
RECURSIVE HistoryToString(_)
HistoryToString(h) ==
  IF Len(h) = 0 THEN ""
  ELSE IF Len(h) = 1 THEN ActionToString(h[1])
  ELSE HistoryToString(SubSeq(h, 1, Len(h) - 1)) \o "-" \o ActionToString(h[Len(h)])

\* other that answers Player2 for either player
PlayerOther_AlwaysPlayer2(p) == "Player2"

\* Player::other
PlayerOther(p) == IF p = "Player1" THEN "Player2" ELSE "Player1"

\* GameState::new
GameStateNew == [history |-> <<>>, current_player |-> "Player1", terminal |-> FALSE]

\* legal_actions with the [Check, Bet] arm of the match left out
legal_actions_NoCheckBet(s) ==
  IF s.terminal THEN <<>>
  ELSE CASE s.history = <<>> -> <<Check, Bet>>
         [] s.history = <<Check>> -> <<Check, Bet>>
         [] s.history = <<Bet>> -> <<Call, Fold>>
         [] OTHER -> <<>>

\* GameState::legal_actions
legal_actions(s) ==
  IF s.terminal THEN <<>>
  ELSE CASE s.history = <<>> -> <<Check, Bet>>
         [] s.history = <<Check>> -> <<Check, Bet>>
         [] s.history = <<Check, Bet>> -> <<Call, Fold>>
         [] s.history = <<Bet>> -> <<Call, Fold>>
         [] OTHER -> <<>>

\* the match of next_state on the new history
TerminalHistory(h) ==
  h \in {<<Check, Check>>, <<Bet, Fold>>, <<Check, Bet, Fold>>,
         <<Bet, Call>>, <<Check, Bet, Call>>}

\* next_state matching the terminal patterns against the end of the new
\* history instead of the whole of it
next_state_SuffixMatch(s, a) ==
  LET new_history == Append(s.history, a)
      n == Len(new_history)
  IN [history |-> new_history,
      current_player |-> PlayerOther(s.current_player),
      terminal |-> \/ (n >= 2 /\ TerminalHistory(SubSeq(new_history, n - 1, n)))
                   \/ (n >= 3 /\ TerminalHistory(SubSeq(new_history, n - 2, n)))]

\* next_state with [Check, Bet, Fold] missing from the terminal patterns
next_state_NoCheckBetFold(s, a) ==
  LET new_history == Append(s.history, a)
  IN [history |-> new_history,
      current_player |-> PlayerOther(s.current_player),
      terminal |-> TerminalHistory(new_history) /\ new_history # <<Check, Bet, Fold>>]

\* GameState::next_state
next_state(s, a) ==
  LET new_history == Append(s.history, a)
  IN [history |-> new_history,
      current_player |-> PlayerOther(s.current_player),
      terminal |-> TerminalHistory(new_history)]

SeqToSet(q) == {q[i] : i \in 1..Len(q)}

(***************************************************************************)
(* cfr.rs: CFRNode and regret matching.                                    *)
(***************************************************************************)
\* CFRNode::new that initialises regret_sum only
CFRNodeNew_NoStrategySum(actions) ==
  [regret_sum |-> [a \in SeqToSet(actions) |-> Zero],
   strategy_sum |-> <<>>,
   actions |-> actions]

\* CFRNode::new: both sums zero-initialised over the given actions
CFRNodeNew(actions) ==
  [regret_sum |-> [a \in SeqToSet(actions) |-> Zero],
   strategy_sum |-> [a \in SeqToSet(actions) |-> Zero],
   actions |-> actions]

\* first loop of get_strategy: normalizing_sum += regret.max(0.0), in the
\* order of self.actions, over the first i actions
RECURSIVE PositiveRegretSum(_, _)
PositiveRegretSum(n, i) ==
  IF i = 0 THEN Zero
  ELSE FAdd(PositiveRegretSum(n, i - 1), FMax(n.regret_sum[n.actions[i]], Zero))

\* get_strategy dividing the regret itself, not its positive part
get_strategy_NoClamp(n) ==
  IF \E a \in SeqToSet(n.actions) : a \notin DOMAIN n.regret_sum
  THEN [panic |-> TRUE, map |-> <<>>]
  ELSE
    LET normalizing_sum == PositiveRegretSum(n, Len(n.actions))
    IN [panic |-> FALSE,
        map |-> [a \in SeqToSet(n.actions) |->
                   IF FGt(normalizing_sum, Zero)
                   THEN FDiv(n.regret_sum[a], normalizing_sum)
                   ELSE FDiv(One, FromInt(Len(n.actions)))]]

\* CFRNode::get_strategy; panic is set when an unwrap() meets a missing key
get_strategy(n) ==
  IF \E a \in SeqToSet(n.actions) : a \notin DOMAIN n.regret_sum
  THEN [panic |-> TRUE, map |-> <<>>]
  ELSE
    LET normalizing_sum == PositiveRegretSum(n, Len(n.actions))
    IN [panic |-> FALSE,
        map |-> [a \in SeqToSet(n.actions) |->
                   IF FGt(normalizing_sum, Zero)
                   THEN FDiv(FMax(n.regret_sum[a], Zero), normalizing_sum)
                   ELSE FDiv(One, FromInt(Len(n.actions)))]]

\* first loop of get_average_strategy
RECURSIVE StrategySumTotal(_, _)
StrategySumTotal(n, i) ==
  IF i = 0 THEN Zero
  ELSE FAdd(StrategySumTotal(n, i - 1), n.strategy_sum[n.actions[i]])

\* get_average_strategy that answers the uniform distribution for every node
get_average_strategy_AlwaysUniform(n) ==
  [panic |-> FALSE,
   map |-> [a \in SeqToSet(n.actions) |-> FDiv(One, FromInt(Len(n.actions)))]]

\* CFRNode::get_average_strategy
get_average_strategy(n) ==
  IF \E a \in SeqToSet(n.actions) : a \notin DOMAIN n.strategy_sum
  THEN [panic |-> TRUE, map |-> <<>>]
  ELSE
    LET normalizing_sum == StrategySumTotal(n, Len(n.actions))
    IN [panic |-> FALSE,
        map |-> [a \in SeqToSet(n.actions) |->
                   IF FGt(normalizing_sum, Zero)
                   THEN FDiv(n.strategy_sum[a], normalizing_sum)
                   ELSE FDiv(One, FromInt(Len(n.actions)))]]

(***************************************************************************)
(* cfr.rs: cards, deals, keys, payoff.                                     *)
(***************************************************************************)
Jack == 11

Queen == 12

King == 13

Card == {Jack, Queen, King}

\* to_char with the Queen arm returning the Jack's letter
CardToChar_QueenAsJack(c) ==
  CASE c = Jack -> "J"
    [] c = Queen -> "J"
    [] c = King -> "K"

\* Card::to_char
CardToChar(c) ==
  CASE c = Jack -> "J"
    [] c = Queen -> "Q"
    [] c = King -> "K"

\* rank with the King ranked as a Queen
CardRank_KingAsQueen(c) == IF c = King THEN Queen ELSE c

\* Card::rank
CardRank(c) == c

\* deal_cards with the last deal replaced by a second Jack-Queen
deal_cards_JackQueenTwice ==
  << <<Jack, Queen>>, <<Jack, King>>, <<Queen, Jack>>,
     <<Queen, King>>, <<King, Jack>>, <<Jack, Queen>> >>

\* deal_cards
deal_cards ==
  << <<Jack, Queen>>, <<Jack, King>>, <<Queen, Jack>>,
     <<Queen, King>>, <<King, Jack>>, <<King, Queen>> >>

\* make_info_set_key that leaves the history out of the key
make_info_set_key_CardOnly(card, history) == card

\* make_info_set_key without the is_empty branch
make_info_set_key_AlwaysDash(card, history) == card \o "-" \o history

\* make_info_set_key
make_info_set_key(card, history) ==
  IF history = "" THEN card ELSE card \o "-" \o history

\* get_payoff paying the pot of a checked hand at a called bet
get_payoff_CallPaysOne(card1, card2, history) ==
  CASE history = "Check-Check" -> (IF CardRank(card1) > CardRank(card2) THEN 1 ELSE -1)
    [] history = "Bet-Fold" -> 1
    [] history = "Check-Bet-Fold" -> -1
    [] history = "Bet-Call" -> (IF CardRank(card1) > CardRank(card2) THEN 1 ELSE -1)
    [] history = "Check-Bet-Call" -> (IF CardRank(card1) > CardRank(card2) THEN 2 ELSE -2)
    [] OTHER -> 0

\* get_payoff
get_payoff(card1, card2, history) ==
  CASE history = "Check-Check" -> (IF CardRank(card1) > CardRank(card2) THEN 1 ELSE -1)
    [] history = "Bet-Fold" -> 1
    [] history = "Check-Bet-Fold" -> -1
    [] history = "Bet-Call" -> (IF CardRank(card1) > CardRank(card2) THEN 2 ELSE -2)
    [] history = "Check-Bet-Call" -> (IF CardRank(card1) > CardRank(card2) THEN 2 ELSE -2)
    [] OTHER -> 0

(***************************************************************************)
(* cfr.rs: the recursive solver.  A call returns its value, the store it   *)
(* leaves, whether an unwrap() panicked, and as ghost data the visits it   *)
(* made to information sets (in the order of their updates) and the        *)
(* number of plies below the state.  A visit records the acting player,    *)
(* the node that get_strategy read, the strategy, what each recursive call *)
(* returned and whether it left the store as it was, action_values,        *)
(* node_value, the node after the update and the value returned.           *)
(***************************************************************************)
\* second loop of cfr: regret_sum[a] += action_values[a] - node_value and
\* strategy_sum[a] += strategy[a] for the first i actions; the caller has
\* checked that every key is present
RECURSIVE UpdateNode(_, _, _, _, _, _)
RECURSIVE UpdateNode_RegretSignFlipped(_, _, _, _, _, _)
RECURSIVE UpdateNode_StrategyOverwrite(_, _, _, _, _, _)

\* the update with regret = node_value - action_value
UpdateNode_RegretSignFlipped(n, actions, action_values, node_value, strat, i) ==
  IF i = 0 THEN n
  ELSE
    LET m == UpdateNode_RegretSignFlipped(n, actions, action_values, node_value,
                                          strat, i - 1)
        a == actions[i]
        regret == FSub(node_value, action_values[a])
    IN [m EXCEPT !.regret_sum[a] = FAdd(@, regret),
                 !.strategy_sum[a] = FAdd(@, strat[a])]

\* the update with strategy_sum[a] = strategy[a] in place of +=
UpdateNode_StrategyOverwrite(n, actions, action_values, node_value, strat, i) ==
  IF i = 0 THEN n
  ELSE
    LET m == UpdateNode_StrategyOverwrite(n, actions, action_values, node_value,
                                          strat, i - 1)
        a == actions[i]
        regret == FSub(action_values[a], node_value)
    IN [m EXCEPT !.regret_sum[a] = FAdd(@, regret),
                 !.strategy_sum[a] = strat[a]]

UpdateNode(n, actions, action_values, node_value, strat, i) ==
  IF i = 0 THEN n
  ELSE
    LET m == UpdateNode(n, actions, action_values, node_value, strat, i - 1)
        a == actions[i]
        regret == FSub(action_values[a], node_value)
    IN [m EXCEPT !.regret_sum[a] = FAdd(@, regret),
                 !.strategy_sum[a] = FAdd(@, strat[a])]

RECURSIVE cfr(_, _, _, _)
RECURSIVE CfrActions(_, _, _, _, _, _, _)

\* first loop of cfr: for the actions from index i on, recurse, negate the
\* value when Player2 acts, record it and add strategy[a] * value to
\* node_value.  The result r of the recursive call is drawn from a one-element
\* set, which computes it once.
CfrActions(s, card1, card2, actions, strat, i, acc) ==
  IF i > Len(actions) \/ acc.panic THEN acc
  ELSE
    CHOOSE result \in {
        LET a == actions[i]
            value == IF s.current_player = "Player1" THEN r.value ELSE FNeg(r.value)
            child == [action |-> a, history |-> Append(s.history, a),
                      terminal |-> next_state(s, a).terminal, value |-> r.value,
                      store_unchanged |-> r.store = acc.store]
            seen == [acc EXCEPT !.store = r.store,
                                !.visits = acc.visits \o r.visits,
                                !.children = Append(acc.children, child),
                                !.depth = IF r.depth + 1 > acc.depth THEN r.depth + 1
                                          ELSE acc.depth]
        IN IF r.panic \/ a \notin DOMAIN strat
           THEN [seen EXCEPT !.panic = TRUE]
           ELSE CfrActions(s, card1, card2, actions, strat, i + 1,
                  [seen EXCEPT !.action_values = (a :> value) @@ acc.action_values,
                               !.node_value = FAdd(acc.node_value, FMul(strat[a], value))])
        : r \in {cfr(next_state(s, actions[i]), card1, card2, acc.store)}} : TRUE

\* cfr; loop, the outcome of the first loop, is drawn from a one-element set
cfr(s, card1, card2, store) ==
  LET history == HistoryToString(s.history)
  IN IF s.terminal
     THEN [value |-> FromInt(get_payoff(card1, card2, history)), store |-> store,
           panic |-> FALSE, visits |-> <<>>, depth |-> 0]
     ELSE
       LET card == IF s.current_player = "Player1" THEN card1 ELSE card2
           info_set_key == make_info_set_key(CardToChar(card), history)
           actions == legal_actions(s)
           store1 == IF info_set_key \in DOMAIN store THEN store
                     ELSE store @@ (info_set_key :> CFRNodeNew(actions))
           strat == get_strategy(store1[info_set_key])
       IN CHOOSE result \in {
              LET n == loop.store[info_set_key]
                  missing == \E a \in SeqToSet(actions) :
                               a \notin DOMAIN n.regret_sum \/ a \notin DOMAIN n.strategy_sum
                  panic == loop.panic \/ missing
                  updated == IF panic THEN n
                             ELSE UpdateNode(n, actions, loop.action_values,
                                             loop.node_value, strat.map, Len(actions))
                  value == IF panic THEN NaN
                           ELSE IF s.current_player = "Player1" THEN loop.node_value
                           ELSE FNeg(loop.node_value)
                  visit == [key |-> info_set_key, card |-> card, history |-> s.history,
                            actions |-> actions,
                            existed |-> info_set_key \in DOMAIN store,
                            node_actions |-> store1[info_set_key].actions,
                            player |-> s.current_player,
                            node_before |-> store1[info_set_key],
                            strategy |-> strat.map,
                            children |-> loop.children,
                            action_values |-> loop.action_values,
                            node_value |-> loop.node_value,
                            node_after |-> updated,
                            value |-> value]
              IN [value |-> value,
                  store |-> IF panic THEN loop.store
                            ELSE [loop.store EXCEPT ![info_set_key] = updated],
                  panic |-> panic,
                  visits |-> loop.visits \o <<visit>>,
                  depth |-> loop.depth]
              : loop \in {CfrActions(s, card1, card2, actions, strat.map, 1,
                            [store |-> store1, action_values |-> <<>>,
                             node_value |-> Zero, panic |-> strat.panic,
                             visits |-> <<>>, depth |-> 0, children |-> <<>>])}}
            : TRUE

(***************************************************************************)
(* State machines.                                                         *)
(***************************************************************************)
\* the action lists legal_actions can return for a non-terminal state
ActionLists == {<<Check, Bet>>, <<Call, Fold>>}

\* largest finite float
MaxFinite == RoundF((Pow2(MantBits) - 1) * Pow2(MaxExp + 1 - MantBits), 1)

\* smallest positive float
MinPositive == RoundF(1, Pow2(MantBits - 1 - MinExp))

\* regret values written into a node: small integers, binary fractions, the
\* extremes of the format, negative values and the non-finite values
FloatInputs ==
  {FromInt(i) : i \in -2..6}
    \cup {RoundF(k, 8) : k \in {1, 3, 5, 7, 9, 11, 13}}
    \cup {MaxFinite, FNeg(MaxFinite), RoundF(Pow2(MaxExp), 1), MinPositive,
          Inf(1), Inf(-1), NaN}

Init ==
  /\ state = GameStateNew
  /\ legalPlay = TRUE
  /\ payoff = [called |-> FALSE, card1 |-> Jack, card2 |-> Queen, value |-> 0]
  /\ node = CFRNodeNew(<<Check, Bet>>)
  /\ strategy = [called |-> FALSE, panic |-> FALSE, map |-> <<>>]
  /\ info_sets = <<>>
  /\ calls = 0
  /\ last = [deal |-> <<>>, value |-> Zero, visits |-> <<>>, depth |-> 0]
  /\ visited = {}
  /\ panicked = FALSE
  /\ printed = [called |-> FALSE, avg |-> <<>>]
  /\ train = [iterations |-> 0, i |-> 0, deal |-> 0, count |-> <<>>, done |-> FALSE]

\* state = state.next_state(a), for any action a, legal or not
NextState(a) ==
  /\ Len(state.history) < MaxPlies
  /\ state' = next_state(state, a)
  /\ legalPlay' = (legalPlay /\ a \in SeqToSet(legal_actions(state)))
  /\ payoff' = [called |-> FALSE, card1 |-> Jack, card2 |-> Queen, value |-> 0]
  /\ UNCHANGED <<node, strategy, info_sets, calls, last, visited, panicked,
               printed, train>>

\* payoff = get_payoff(card1, card2, &state.history.to_string())
GetPayoff(card1, card2) ==
  /\ payoff' = [called |-> TRUE, card1 |-> card1, card2 |-> card2,
                value |-> get_payoff(card1, card2, HistoryToString(state.history))]
  /\ UNCHANGED <<state, legalPlay, node, strategy, info_sets, calls, last, visited, panicked,
               printed, train>>

NextGame ==
  \/ \E a \in Action : NextState(a)
  \/ \E i \in 1..Len(deal_cards) : GetPayoff(deal_cards[i][1], deal_cards[i][2])

SpecGame == Init /\ [][NextGame]_vars

\* node = CFRNode::new(actions)
NewNode(actions) ==
  /\ node' = CFRNodeNew(actions)
  /\ strategy' = [called |-> FALSE, panic |-> FALSE, map |-> <<>>]
  /\ UNCHANGED <<state, legalPlay, payoff, info_sets, calls, last, visited, panicked,
               printed, train>>

\* node.regret_sum.insert(a, x)
SetRegret(a, x) ==
  /\ a \in SeqToSet(node.actions)
  /\ node' = [node EXCEPT !.regret_sum[a] = x]
  /\ strategy' = [called |-> FALSE, panic |-> FALSE, map |-> <<>>]
  /\ UNCHANGED <<state, legalPlay, payoff, info_sets, calls, last, visited, panicked,
               printed, train>>

\* strategy = node.get_strategy()
GetStrategy ==
  /\ ~strategy.called
  /\ strategy' = [called |-> TRUE, panic |-> get_strategy(node).panic,
                  map |-> get_strategy(node).map]
  /\ UNCHANGED <<state, legalPlay, payoff, node, info_sets, calls, last, visited, panicked,
               printed, train>>

NextStrategy ==
  \/ \E actions \in ActionLists : NewNode(actions)
  \/ \E a \in Action, x \in FloatInputs : SetRegret(a, x)
  \/ GetStrategy

SpecStrategy == Init /\ [][NextStrategy]_vars

\* the call made on a new map instead of info_sets
CfrCall_FreshStore(card1, card2) ==
  /\ calls < MaxCalls
  /\ ~panicked
  /\ ~printed.called
  /\ \E r \in {cfr(GameStateNew, card1, card2, <<>>)} :
        /\ info_sets' = r.store
        /\ panicked' = r.panic
        /\ last' = [deal |-> <<card1, card2>>, value |-> r.value,
                    visits |-> r.visits, depth |-> r.depth]
        /\ visited' = visited \cup
             {[key |-> r.visits[i].key, card |-> r.visits[i].card,
               history |-> r.visits[i].history, deal |-> <<card1, card2>>] :
                i \in 1..Len(r.visits)}
  /\ calls' = calls + 1
  /\ UNCHANGED <<state, legalPlay, payoff, node, strategy, printed, train>>

\* cfr(&GameState::new(), card1, card2, &mut info_sets); the program makes
\* no call after print_strategy
CfrCall(card1, card2) ==
  /\ calls < MaxCalls
  /\ ~panicked
  /\ ~printed.called
  /\ \E r \in {cfr(GameStateNew, card1, card2, info_sets)} :
        /\ info_sets' = r.store
        /\ panicked' = r.panic
        /\ last' = [deal |-> <<card1, card2>>, value |-> r.value,
                    visits |-> r.visits, depth |-> r.depth]
        /\ visited' = visited \cup
             {[key |-> r.visits[i].key, card |-> r.visits[i].card,
               history |-> r.visits[i].history, deal |-> <<card1, card2>>] :
                i \in 1..Len(r.visits)}
  /\ calls' = calls + 1
  /\ UNCHANGED <<state, legalPlay, payoff, node, strategy, printed, train>>

\* print_strategy(&info_sets): get_average_strategy of every node of the
\* store; the text written to stdout is not modelled
PrintStrategy ==
  /\ ~panicked
  /\ ~printed.called
  /\ \E avg \in {[k \in DOMAIN info_sets |-> get_average_strategy(info_sets[k])]} :
        /\ printed' = [called |-> TRUE, avg |-> [k \in DOMAIN avg |-> avg[k].map]]
        /\ panicked' = \E k \in DOMAIN avg : avg[k].panic
  /\ UNCHANGED <<state, legalPlay, payoff, node, strategy, info_sets, calls, last,
                 visited, train>>

Next ==
  \/ \E i \in 1..Len(deal_cards) : CfrCall(deal_cards[i][1], deal_cards[i][2])
  \/ PrintStrategy

Spec == Init /\ [][Next]_vars

\* let mut info_sets = InfoSetMap::new() at the start of train(iterations)
TrainNew(iterations) ==
  /\ train.iterations = 0
  /\ train' = [train EXCEPT !.iterations = iterations]
  /\ info_sets' = <<>>
  /\ UNCHANGED <<state, legalPlay, payoff, node, strategy, calls, last, visited,
                 panicked, printed>>

\* one pass of the inner loop of train: cfr from GameState::new() with the
\* next deal of deal_cards(); the pass over the last deal ends iteration i.
\* count is ghost data: the visits made to each key so far.  The progress
\* marks written to stdout are not modelled.
TrainCfr ==
  /\ train.iterations > 0
  /\ train.i < train.iterations
  /\ ~panicked
  /\ \E deal \in {deal_cards[train.deal + 1]} :
     \E r \in {cfr(GameStateNew, deal[1], deal[2], info_sets)} :
        /\ info_sets' = r.store
        /\ panicked' = r.panic
        /\ last' = [deal |-> deal, value |-> r.value,
                    visits |-> r.visits, depth |-> r.depth]
        /\ visited' = visited \cup
             {[key |-> r.visits[i].key, card |-> r.visits[i].card,
               history |-> r.visits[i].history, deal |-> deal] :
                i \in 1..Len(r.visits)}
        /\ train' = [train EXCEPT
             !.deal = IF train.deal + 1 = Len(deal_cards) THEN 0 ELSE train.deal + 1,
             !.i = IF train.deal + 1 = Len(deal_cards) THEN train.i + 1 ELSE train.i,
             !.count = [k \in DOMAIN train.count \cup
                               {r.visits[i].key : i \in 1..Len(r.visits)} |->
                          (IF k \in DOMAIN train.count THEN train.count[k] ELSE 0)
                          + Cardinality({i \in 1..Len(r.visits) : r.visits[i].key = k})]]
  /\ calls' = calls + 1
  /\ UNCHANGED <<state, legalPlay, payoff, node, strategy, printed>>

\* train returns info_sets after the last iteration
TrainReturn ==
  /\ train.iterations > 0
  /\ train.i = train.iterations
  /\ ~train.done
  /\ ~panicked
  /\ train' = [train EXCEPT !.done = TRUE]
  /\ UNCHANGED <<state, legalPlay, payoff, node, strategy, info_sets, calls, last,
                 visited, panicked, printed>>

\* main: print_strategy(&info_sets) on the map train returned
TrainPrint == train.done /\ PrintStrategy

NextTrain ==
  \/ \E iterations \in 1..MaxIters : TrainNew(iterations)
  \/ TrainCfr
  \/ TrainReturn
  \/ TrainPrint

SpecTrain == Init /\ [][NextTrain]_vars

(***************************************************************************)
(* Properties of the game tree (SpecGame).                                 *)
(***************************************************************************)
\* C1: in every GameState obtained from GameState::new() by next_state
\* calls, with any actions, terminal is true exactly when the history is
\* one of [Check,Check], [Bet,Fold], [Check,Bet,Fold], [Bet,Call],
\* [Check,Bet,Call].
C1_TerminalIffTerminalHistory ==
  state.terminal <=>
    \/ state.history = <<Check, Check>>
    \/ state.history = <<Bet, Fold>>
    \/ state.history = <<Check, Bet, Fold>>
    \/ state.history = <<Bet, Call>>
    \/ state.history = <<Check, Bet, Call>>

\* a terminal state of three actions
C1_Witness ==
  state.terminal /\ state.history = <<Check, Bet, Call>>

\* the legal_actions table of the claim, on the four listed histories
LegalActionsTable ==
  /\ state.history = <<>> => legal_actions(state) = <<Check, Bet>>
  /\ state.history = <<Check>> => legal_actions(state) = <<Check, Bet>>
  /\ state.history = <<Check, Bet>> => legal_actions(state) = <<Call, Fold>>
  /\ state.history = <<Bet>> => legal_actions(state) = <<Call, Fold>>
  /\ state.history \notin {<<>>, <<Check>>, <<Check, Bet>>, <<Bet>>}
       => legal_actions(state) = <<>>

\* C2 as stated: the table holds and, for every GameState, legal_actions is
\* empty exactly when the state is terminal.
C2_Original ==
  /\ LegalActionsTable
  /\ (legal_actions(state) = <<>>) <=> state.terminal

\* C2 amended: the table holds for every GameState, and for every GameState
\* reached from the initial state by actions taken from legal_actions,
\* legal_actions is empty exactly when the state is terminal.
C2_LegalPlayEmptyIffTerminal ==
  /\ LegalActionsTable
  /\ legalPlay => ((legal_actions(state) = <<>>) <=> state.terminal)

\* a terminal state reached by legal play, without legal actions
C2_Witness ==
  legalPlay /\ state.terminal /\ legal_actions(state) = <<>> /\ state.history = <<Bet, Fold>>

\* C5: get_payoff for a deal of two distinct cards and the text of a
\* history: Check-Check +1/-1 by rank, Bet-Fold +1, Check-Bet-Fold -1,
\* Bet-Call and Check-Bet-Call +2/-2 by rank, anything else 0.
C5_PayoffTable ==
  payoff.called =>
    LET h == state.history
        win == payoff.card1 > payoff.card2
    IN payoff.value =
         CASE h = <<Check, Check>> -> (IF win THEN 1 ELSE -1)
           [] h = <<Bet, Fold>> -> 1
           [] h = <<Check, Bet, Fold>> -> -1
           [] h = <<Bet, Call>> -> (IF win THEN 2 ELSE -2)
           [] h = <<Check, Bet, Call>> -> (IF win THEN 2 ELSE -2)
           [] OTHER -> 0

\* a called bet lost at showdown
C5_Witness ==
  payoff.called /\ state.history = <<Bet, Call>> /\ payoff.value = -2

\* C10: a play from the initial state that takes its actions from
\* legal_actions has at most 3 actions, has reached a terminal state as
\* soon as it cannot go on, and a terminal state has no legal action.
C10_LegalPlayEndsWithin3 ==
  legalPlay =>
    /\ Len(state.history) <= 3
    /\ Len(state.history) = 3 => state.terminal
    /\ legal_actions(state) = <<>> => state.terminal
    /\ state.terminal => legal_actions(state) = <<>>

\* a legal play of 3 actions, at its terminal state
C10_Witness ==
  legalPlay /\ Len(state.history) = 3 /\ state.terminal

\* C11: in every GameState obtained from GameState::new() by next_state
\* calls current_player is Player1 exactly when the history has even length
\* and Player2 exactly when it has odd length.
C11_PlayerIsParityOfHistory ==
  /\ state.current_player \in {"Player1", "Player2"}
  /\ state.current_player = "Player1" <=> Len(state.history) % 2 = 0
  /\ state.current_player = "Player2" <=> Len(state.history) % 2 = 1

\* Player2 to act after three transitions
C11_Witness ==
  Len(state.history) = 3 /\ state.current_player = "Player2"

\* the three history texts that end in a showdown
ShowdownTexts == {"Check-Check", "Bet-Call", "Check-Bet-Call"}

\* C14: at a showdown history (Check-Check, Bet-Call, Check-Bet-Call) the
\* payoff of a deal is the negation of the payoff of the deal with the two
\* cards swapped.
C14_ShowdownAntisymmetric ==
  payoff.called /\ HistoryToString(state.history) \in ShowdownTexts =>
    /\ payoff.value # 0
    /\ payoff.value =
         -get_payoff(payoff.card2, payoff.card1, HistoryToString(state.history))

\* the King beating the Queen after two checks
C14_Witness ==
  /\ payoff.called
  /\ state.history = <<Check, Check>>
  /\ payoff.card1 = King /\ payoff.card2 = Queen
  /\ payoff.value = 1

\* C20: at every terminal GameState obtained from GameState::new() by
\* next_state calls the joined history is one of the five texts get_payoff
\* recognises and get_payoff returns -2, -1, 1 or 2 for every deal, never
\* the fallback 0.
C20_TerminalTextRecognised ==
  payoff.called /\ state.terminal =>
    /\ HistoryToString(state.history) \in
         {"Check-Check", "Bet-Fold", "Check-Bet-Fold", "Bet-Call", "Check-Bet-Call"}
    /\ payoff.value \in {-2, -1, 1, 2}

\* the payoff of a folded bet after a check
C20_Witness ==
  /\ payoff.called /\ state.terminal
  /\ state.history = <<Check, Bet, Fold>> /\ payoff.value = -1

(***************************************************************************)
(* Properties of the solver and its store (Spec).                          *)
(***************************************************************************)
Visits == {last.visits[i] : i \in 1..Len(last.visits)}

\* C4: over any sequence of cfr calls from the initial GameState with any
\* of the six deals on a shared store no unwrap() meets a missing key, and
\* at every visit the stored node's actions are legal_actions of the state.
C4_NoMissingKey ==
  /\ ~panicked
  /\ \A v \in Visits : v.node_actions = v.actions

\* a visit to an information set that an earlier call created
C4_Witness ==
  ~panicked /\ \E v \in Visits : v.existed /\ v.history = <<Check, Bet>>

\* C6: in every node of the store the key sets of regret_sum and
\* strategy_sum are the set of the node's actions; a node created by the
\* last call has the legal actions of the state that created it and, after
\* its first update from zero, strategy_sum = 1/|actions| everywhere; no
\* call removes a node or changes its actions.
C6_KeySetsEqualActions ==
  /\ [](/\ \A k \in DOMAIN info_sets :
             /\ DOMAIN info_sets[k].regret_sum = SeqToSet(info_sets[k].actions)
             /\ DOMAIN info_sets[k].strategy_sum = SeqToSet(info_sets[k].actions)
        /\ \A v \in Visits :
             ~v.existed =>
               /\ info_sets[v.key].actions = v.actions
               /\ \A a \in SeqToSet(v.actions) :
                    info_sets[v.key].strategy_sum[a] = [n |-> 1, d |-> Len(v.actions)])
  /\ [][\A k \in DOMAIN info_sets :
          k \in DOMAIN info_sets' /\ info_sets'[k].actions = info_sets[k].actions]_vars

\* a store whose node J-Check-Bet has been updated by two calls
C6_Witness ==
  /\ calls = 2
  /\ "J-Check-Bet" \in DOMAIN info_sets
  /\ \E v \in Visits : v.key = "J-Check-Bet" /\ v.existed

\* C7: two visits of cfr to non-terminal states use the same key exactly
\* when the acting player's card and the history are the same, whatever the
\* deals are.
C7_KeyIsActingCardAndHistory ==
  \A v, w \in visited :
    (v.key = w.key) <=> (v.card = w.card /\ v.history = w.history)

\* the same information set visited under two deals that differ in the
\* opponent's card
C7_Witness ==
  \E v, w \in visited :
    /\ v.key = w.key
    /\ v.deal[1] = w.deal[1]
    /\ v.deal[2] # w.deal[2]
    /\ v.history = <<>>

\* C8: a single cfr call from the initial GameState on an empty store
\* leaves the store non-empty, with the key that is the letter of card1.
C8_RootInfoSetCreated ==
  calls = 1 =>
    /\ DOMAIN info_sets # {}
    /\ last.deal[1] = Jack => "J" \in DOMAIN info_sets
    /\ last.deal[1] = Queen => "Q" \in DOMAIN info_sets
    /\ last.deal[1] = King => "K" \in DOMAIN info_sets

\* the store after one call with the deal King-Jack
C8_Witness ==
  calls = 1 /\ last.deal = <<King, Jack>> /\ "K" \in DOMAIN info_sets

\* every top-level cfr call recurses exactly 3 plies deep
CfrDepthIs3 == calls > 0 /\ ~panicked => last.depth = 3

\* C12: no step removes a key of the store; a cfr call finds exactly the
\* keys of the store before it as existing, reads the stored node of an
\* existing key (never a new one in its place), and the keys it adds are
\* the keys of the visits that found none.
C12_StoreGrowsMonotonically ==
  [][/\ DOMAIN info_sets \subseteq DOMAIN info_sets'
     /\ calls' # calls =>
          /\ \A v \in Visits' :
               /\ v.existed <=> v.key \in DOMAIN info_sets
               /\ v.existed => v.node_before = info_sets[v.key]
               /\ v.key \in DOMAIN info_sets'
          /\ DOMAIN info_sets' \ DOMAIN info_sets =
               {v.key : v \in {w \in Visits' : ~w.existed}}]_vars

\* three calls whose deals share no information set: twelve nodes, the
\* eight of the first two calls still there after the third
C12_Witness ==
  calls = 3 /\ Cardinality(DOMAIN info_sets) = 12 /\ Len(last.visits) = 4

\* C15 as stated: over any sequence of cfr calls no entry of regret_sum and
\* no entry of strategy_sum of any node ever decreases.
C15_Original ==
  [][\A k \in DOMAIN info_sets :
       \A a \in SeqToSet(info_sets[k].actions) :
         /\ ~FLt(info_sets'[k].regret_sum[a], info_sets[k].regret_sum[a])
         /\ ~FLt(info_sets'[k].strategy_sum[a], info_sets[k].strategy_sum[a])]_vars

\* C15, amended: no entry of strategy_sum ever decreases and every entry is
\* non-negative; an entry of regret_sum decreases only at a visit whose
\* regret action_values[a] - node_value for that action is negative.
C15_StrategySumNeverDecreases ==
  [][/\ \A k \in DOMAIN info_sets :
          \A a \in SeqToSet(info_sets[k].actions) :
            /\ ~FLt(info_sets'[k].strategy_sum[a], info_sets[k].strategy_sum[a])
            /\ ~FLt(info_sets'[k].strategy_sum[a], Zero)
            /\ FLt(info_sets'[k].regret_sum[a], info_sets[k].regret_sum[a]) =>
                 /\ calls' # calls
                 /\ \E v \in Visits' :
                      /\ v.key = k
                      /\ FLt(FSub(v.action_values[a], v.node_value), Zero)]_vars

\* a visit to an existing node that lowered one regret_sum entry and raised
\* one strategy_sum entry
C15_Witness ==
  \E v \in Visits :
    /\ v.existed
    /\ info_sets[v.key] = v.node_after
    /\ \E a \in SeqToSet(v.actions) :
         FLt(v.node_after.regret_sum[a], v.node_before.regret_sum[a])
    /\ \E a \in SeqToSet(v.actions) :
         FGt(v.node_after.strategy_sum[a], v.node_before.strategy_sum[a])

\* the value a recursive call made in a visit must have returned: the payoff
\* of the deal at a terminal state, else what the visit at that state returned
C17_ChildValueOk(c) ==
  IF c.terminal
  THEN c.value = FromInt(get_payoff(last.deal[1], last.deal[2],
                                    HistoryToString(c.history)))
  ELSE \E w \in Visits : w.history = c.history /\ w.value = c.value

\* V of the claim: the sum over the two legal actions, in their order, of
\* s[a] * v[a], added to 0.0
C17_V(v) ==
  FAdd(FAdd(Zero, FMul(v.strategy[v.actions[1]], v.action_values[v.actions[1]])),
       FMul(v.strategy[v.actions[2]], v.action_values[v.actions[2]]))

\* C17: at each visit of the last cfr call, s is get_strategy of the node
\* as it was before the recursive calls, v[a] is the recursive result
\* (negated when Player2 acts), node_value is V = sum of s[a]*v[a],
\* regret_sum[a] becomes regret_sum[a] + (v[a] - V) and strategy_sum[a]
\* becomes strategy_sum[a] + s[a] in f64 arithmetic, the visit returns V
\* for Player1 and -V for Player2, and a call on a terminal state returns
\* get_payoff of the deal and history.
C17_VisitUpdatesByRegretAndStrategy ==
  calls > 0 =>
    /\ \E v \in Visits : v.history = <<>> /\ v.value = last.value
    /\ \A v \in Visits :
         /\ Len(v.actions) = 2 /\ Len(v.children) = 2
         /\ v.strategy = get_strategy(v.node_before).map
         /\ \A i \in 1..2 :
              /\ v.children[i].history = Append(v.history, v.actions[i])
              /\ C17_ChildValueOk(v.children[i])
              /\ v.action_values[v.actions[i]] =
                   IF v.player = "Player1" THEN v.children[i].value
                   ELSE FNeg(v.children[i].value)
         /\ v.node_value = C17_V(v)
         /\ \A a \in SeqToSet(v.actions) :
              /\ v.node_after.regret_sum[a] =
                   FAdd(v.node_before.regret_sum[a],
                        FSub(v.action_values[a], v.node_value))
              /\ v.node_after.strategy_sum[a] =
                   FAdd(v.node_before.strategy_sum[a], v.strategy[a])
         /\ info_sets[v.key] = v.node_after
         /\ v.value = IF v.player = "Player1" THEN v.node_value
                      ELSE FNeg(v.node_value)

\* a visit where Player2 acts on a mixed strategy, with a node_value that is
\* not zero and a regret that is not zero
C17_Witness ==
  \E v \in Visits :
    /\ v.player = "Player2" /\ v.existed
    /\ v.node_value # Zero /\ v.value = FNeg(v.node_value)
    /\ \A a \in SeqToSet(v.actions) : FGt(v.strategy[a], Zero)
    /\ \E a \in SeqToSet(v.actions) :
         v.node_after.regret_sum[a] # v.node_before.regret_sum[a]

\* the letter of a card in an information-set key
C19_Letter(c) == IF c = Jack THEN "J" ELSE IF c = Queen THEN "Q" ELSE "K"

\* the four keys of the claim for the deal (c1, c2)
C19_Keys(c1, c2) ==
  {C19_Letter(c1), C19_Letter(c2) \o "-Check", C19_Letter(c2) \o "-Bet",
   C19_Letter(c1) \o "-Check-Bet"}

\* the recursive calls of the last cfr call that were made on a terminal state
C19_TerminalCalls ==
  {x \in {<<v.key, i>> : v \in Visits, i \in 1..2} :
     \E v \in Visits : v.key = x[1] /\ v.children[x[2]].terminal}

\* C19: a cfr call from the initial GameState with deal (c1, c2) visits
\* exactly the four keys c1, c2-Check, c2-Bet, c1-Check-Bet, each once,
\* changes each of their nodes, adds no other key and leaves every other
\* node as it was; its five recursive calls on terminal states leave the
\* store as they found it.
C19_CallTouchesFourInfoSets ==
  [][calls' # calls =>
       /\ Len(last'.visits) = 4
       /\ Cardinality(C19_Keys(last'.deal[1], last'.deal[2])) = 4
       /\ {v.key : v \in Visits'} = C19_Keys(last'.deal[1], last'.deal[2])
       /\ DOMAIN info_sets' =
            DOMAIN info_sets \cup C19_Keys(last'.deal[1], last'.deal[2])
       /\ \A k \in DOMAIN info_sets :
            IF k \in C19_Keys(last'.deal[1], last'.deal[2])
            THEN info_sets'[k] # info_sets[k]
            ELSE info_sets'[k] = info_sets[k]
       /\ \A v \in Visits' : v.node_after # v.node_before
       /\ Cardinality(C19_TerminalCalls') = 5
       /\ \A v \in Visits' : \A i \in 1..2 :
            v.children[i].terminal => v.children[i].store_unchanged]_vars

\* a second call on a store that holds four nodes the call does not visit
C19_Witness ==
  /\ calls = 2
  /\ Cardinality(DOMAIN info_sets) = 8
  /\ \A v \in Visits : ~v.existed

\* T of the claim for the node under key k: the sum of strategy_sum over
\* the node's two actions, added to 0.0
C13_T(k) ==
  FAdd(FAdd(Zero, info_sets[k].strategy_sum[info_sets[k].actions[1]]),
       info_sets[k].strategy_sum[info_sets[k].actions[2]])

\* the sum of the average strategy printed for key k, added as f64
C13_ProbSum(k) ==
  FAdd(printed.avg[k][info_sets[k].actions[1]],
       printed.avg[k][info_sets[k].actions[2]])

\* the values of the claim: strategy_sum[a]/T when T > 0, the uniform
\* 1/|actions| otherwise, none of them negative
C13_Values ==
  /\ ~panicked
  /\ DOMAIN printed.avg = DOMAIN info_sets
  /\ \A k \in DOMAIN info_sets :
       /\ DOMAIN printed.avg[k] = SeqToSet(info_sets[k].actions)
       /\ \A a \in SeqToSet(info_sets[k].actions) :
            /\ printed.avg[k][a] =
                 IF FGt(C13_T(k), Zero)
                 THEN FDiv(info_sets[k].strategy_sum[a], C13_T(k))
                 ELSE [n |-> 1, d |-> Len(info_sets[k].actions)]
            /\ ~FLt(printed.avg[k][a], Zero)

\* C13 as stated: for every node of the store after any sequence of cfr
\* calls get_average_strategy returns strategy_sum[a]/T when T > 0 and the
\* uniform distribution otherwise, no entry is negative and the entries sum
\* to 1.
C13_Original ==
  printed.called =>
    /\ C13_Values
    /\ \A k \in DOMAIN info_sets : C13_ProbSum(k) = One

\* C13, amended: the same values, each in [0, 1], summing to 1 up to one
\* unit in the last place of 1.0.
C13_AverageSumsToOneUpToRounding ==
  printed.called =>
    /\ C13_Values
    /\ \A k \in DOMAIN info_sets :
         /\ \A a \in SeqToSet(info_sets[k].actions) : ~FGt(printed.avg[k][a], One)
         /\ IsFin(C13_ProbSum(k))
         /\ Abs(C13_ProbSum(k).n - C13_ProbSum(k).d) * Pow2(MantBits - 1)
              <= C13_ProbSum(k).d

\* the average strategies of a store after three calls, one of them with
\* quotients that were rounded and do not add up to 1
C13_Witness ==
  /\ printed.called
  /\ calls = 3
  /\ \E k \in DOMAIN info_sets :
       /\ FGt(C13_T(k), Zero)
       /\ C13_ProbSum(k) # One

(***************************************************************************)
(* Properties of training (SpecTrain).                                     *)
(***************************************************************************)
\* the keys of the claim: one per card J, Q, K and history empty, Check,
\* Bet, Check-Bet
C18_Keys ==
  {c \o h : c \in {"J", "Q", "K"}, h \in {"", "-Check", "-Bet", "-Check-Bet"}}

\* the strategy_sum entries of the node under key k are not negative and
\* add up to t, both as the exact sum of the two stored values and as
\* their f64 sum
C18_SumIs(k, t) ==
  LET x == info_sets[k].strategy_sum[info_sets[k].actions[1]]
      y == info_sets[k].strategy_sum[info_sets[k].actions[2]]
  IN /\ Len(info_sets[k].actions) = 2
     /\ IsFin(x) /\ IsFin(y)
     /\ x.n >= 0 /\ y.n >= 0
     /\ x.n * y.d + y.n * x.d = t * x.d * y.d
     /\ FAdd(FAdd(Zero, x), y) = FromInt(t)

\* C18: after k >= 1 complete iterations of train the store holds exactly
\* the 12 information sets, each has been visited exactly 2k times, and in
\* each of them the strategy_sum entries are non-negative and sum to
\* exactly 2k.
C18_TwelveInfoSetsSumTwoK ==
  train.i >= 1 /\ train.deal = 0 =>
    /\ ~panicked
    /\ calls = 6 * train.i
    /\ DOMAIN info_sets = C18_Keys
    /\ Cardinality(DOMAIN info_sets) = 12
    /\ DOMAIN train.count = C18_Keys
    /\ \A k \in C18_Keys :
         /\ train.count[k] = 2 * train.i
         /\ C18_SumIs(k, 2 * train.i)

\* train(3) has returned; node J holds a strategy_sum that is not a whole
\* number
C18_Witness ==
  /\ train.done /\ train.iterations = 3 /\ train.i = 3 /\ train.deal = 0
  /\ info_sets["J"].strategy_sum[Bet].d > 1

(***************************************************************************)
(* Properties of regret matching (SpecStrategy).  The nodes have two       *)
(* actions, as every node the solver creates has.                          *)
(***************************************************************************)
\* S of the claim: the sum of max(regret_sum[a], 0) over the node's actions
C3_S ==
  FAdd(FAdd(Zero, FMax(node.regret_sum[node.actions[1]], Zero)),
       FMax(node.regret_sum[node.actions[2]], Zero))

\* the sum of the returned probabilities, added as f64
C3_ProbSum ==
  FAdd(strategy.map[node.actions[1]], strategy.map[node.actions[2]])

\* the probabilities of the claim: max(regret_sum[a], 0)/S when S > 0, the
\* uniform 1/|actions| when S == 0
C3_Values ==
  /\ ~strategy.panic
  /\ DOMAIN strategy.map = SeqToSet(node.actions)
  /\ FGt(C3_S, Zero) =>
       \A a \in SeqToSet(node.actions) :
         strategy.map[a] = FDiv(FMax(node.regret_sum[a], Zero), C3_S)
  /\ C3_S = Zero =>
       \A a \in SeqToSet(node.actions) :
         strategy.map[a] = [n |-> 1, d |-> Len(node.actions)]

\* C3 as stated: for any values of regret_sum the probabilities are those
\* of the claim, each is non-negative and they sum to exactly 1.
C3_Original ==
  strategy.called =>
    /\ C3_Values
    /\ \A a \in SeqToSet(node.actions) : FLt(Zero, strategy.map[a]) \/ strategy.map[a] = Zero
    /\ C3_ProbSum = One

\* C3 amended: when S is finite (no regret is +inf and the sum does not
\* overflow) the probabilities are those of the claim, each lies in [0, 1],
\* and their sum is 1 up to one unit in the last place of 1.0, and exactly
\* 1 in the uniform case.
C3_SumsToOneUpToRounding ==
  strategy.called /\ IsFin(C3_S) =>
    /\ C3_Values
    /\ \A a \in SeqToSet(node.actions) :
         /\ IsFin(strategy.map[a])
         /\ 0 <= strategy.map[a].n
         /\ strategy.map[a].n <= strategy.map[a].d
    /\ IsFin(C3_ProbSum)
    /\ Abs(C3_ProbSum.n - C3_ProbSum.d) * Pow2(MantBits - 1) <= C3_ProbSum.d
    /\ C3_S = Zero => C3_ProbSum = One

\* regret matching on the regrets 3 and -1: all the weight on one action
C3_Witness ==
  /\ strategy.called
  /\ node.regret_sum[node.actions[1]] = FromInt(3)
  /\ node.regret_sum[node.actions[2]] = FromInt(-1)
  /\ strategy.map[node.actions[1]] = One
  /\ strategy.map[node.actions[2]] = Zero

\* probabilities that do not add up to 1 although S is finite and positive
C3_RoundingSeen ==
  strategy.called /\ IsFin(C3_S) /\ C3_ProbSum # One

====
